---- MODULE Spec2Model ----
(***************************************************************************)
(* A model of checkin.py: the account parser, the session client's three   *)
(* remote operations, the run driver (main) and the Telegram formatter and *)
(* sender.  JSON payloads are records whose domain is the set of keys that *)
(* are present, so that dict.get and the "in" test are modelled by what    *)
(* they do.  Python values are tagged records; strings are abstracted to   *)
(* their origin and their length.                                          *)
(***************************************************************************)
EXTENDS Integers, Sequences, FiniteSets, TLC

VARIABLES pc, cfg, parse_form, accounts, i, client, prev_client, prof_resp,
          user_info, resp, result, account_result, history, success_count,
          fail_count, checkin_results, hist_known, calls, tg, ding,
          exit_code, crashed

vars == <<pc, cfg, parse_form, accounts, i, client, prev_client, prof_resp,
          user_info, resp, result, account_result, history, success_count,
          fail_count, checkin_results, hist_known, calls, tg, ding,
          exit_code, crashed>>

\* ------------------------------------------------------------------------
\* Bounds and program constants
\* ------------------------------------------------------------------------

\* The largest number of elements of a configured account list.
MaxAccounts == 2

\* resp.text[:200] in checkin
BodyPreview == 200
\* len(msg) > 50 in format_telegram_message
MsgLimit == 50
\* msg[:47] in format_telegram_message
MsgKeep == 47
\* quota thresholds
Million == 1000000
Thousand == 1000

\* ------------------------------------------------------------------------
\* Python values
\* ------------------------------------------------------------------------

None == [t |-> "none"]
Num(n) == [t |-> "num", v |-> n]
Bool(b) == [t |-> "bool", b |-> b]
\* a decimal string such as the one a regular expression group returns
IdStr(s) == [t |-> "idstr", s |-> s]
\* a JSON array (non-empty): truthy, supports "in", has no .get
List == [t |-> "list"]
\* a JSON object; d is a record whose domain is the set of keys present
Dict(r) == [t |-> "dict", d |-> r]
NoKeys == [k \in {} |-> None]
\* a string: where it comes from (kind, status, inner), its length, and
\* whether an ellipsis was appended
Text(kind, status, inner, len) ==
    [t |-> "str", kind |-> kind, status |-> status, inner |-> inner,
     len |-> len, ell |-> FALSE]
Lit(name, len) == Text("lit", 0, name, len)
Api(name, len) == Text("api", 0, name, len)

IsDict(v) == v.t = "dict"
IsStr(v) == v.t = "str"
IsNum(v) == v.t = "num"

\* Python truthiness
Truthy(v) ==
    CASE v.t = "none" -> FALSE
      [] v.t = "num" -> v.v # 0
      [] v.t = "bool" -> v.b
      [] v.t = "idstr" -> v.s # ""
      [] v.t = "list" -> TRUE
      [] v.t = "dict" -> DOMAIN v.d # {}
      [] v.t = "str" -> v.len > 0

\* dict.get(key, default) on the keys of a JSON object
Get(d, key, default) == IF key \in DOMAIN d THEN d[key] ELSE default

\* s[:n]
Slice(s, n) == [s EXCEPT !.len = IF s.len > n THEN n ELSE s.len]

\* str(v) for the values that reach a request header
Str(v) ==
    CASE v.t = "num" -> ToString(v.v)
      [] v.t = "idstr" -> v.s
      [] v.t = "none" -> "None"
      [] OTHER -> "object"

\* ------------------------------------------------------------------------
\* Account parser
\* ------------------------------------------------------------------------

\* A session cookie, seen through what base64-decoding it and searching the
\* four patterns gives: decodes is FALSE when b64decode raises, and m[k] is
\* the digits the k-th pattern captures ("" when it does not match).
Cookie(decodes, m) == [decodes |-> decodes, m |-> m]
CookiePlain == Cookie(TRUE, <<"", "", "", "">>)
CookieLinuxdo == Cookie(TRUE, <<"988", "", "17", "">>)
CookieBroken == Cookie(FALSE, <<"", "", "", "">>)

\* A URL: its text without trailing slashes, and how many slashes trail it.
Url(base, trail) == [base |-> base, trail |-> trail]

\* Elements of a JSON account list.
ItemAlice ==
    Dict([url |-> Url("https://a.example", 1), session |-> CookieLinuxdo,
          name |-> "alice", user_id |-> Num(7), cf_clearance |-> "cf"])
ItemAnon == Dict([url |-> Url("https://b.example", 0), session |-> CookieLinuxdo])
ItemZero ==
    Dict([url |-> Url("https://c.example", 0), session |-> CookieBroken,
          name |-> "", user_id |-> Num(0)])
ItemNoSession == Dict([url |-> Url("https://d.example", 0), name |-> "dave"])
ItemPool == <<ItemAlice, ItemAnon, ItemZero>>

\* A comma-separated chunk of the raw text after strip(): whether it holds a
\* '#', and the two sides of its first '#'.
Part(hash, url, session) == [hash |-> hash, url |-> url, session |-> session]
PartPool ==
    <<Part(TRUE, Url("https://a.example", 1), CookieLinuxdo),
      Part(TRUE, Url("https://b.example", 0), CookiePlain),
      Part(TRUE, Url("https://c.example", 0), CookieBroken)>>
PartNoHash == Part(FALSE, Url("", 0), CookiePlain)

\* A configuration string, seen through both readings the parser may give
\* it: what json.loads makes of it (json is "invalid", "list" or "other",
\* items the elements of a list) and what split(',') makes of it (parts).
Config(empty, json, items, parts) ==
    [empty |-> empty, json |-> json, items |-> items, parts |-> parts]

ItemsOf(n) == [k \in 1..n |-> ItemPool[((k - 1) % Len(ItemPool)) + 1]]
PartsOf(n) == [k \in 1..n |-> PartPool[((k - 1) % Len(PartPool)) + 1]]

Configs ==
    {Config(TRUE, "invalid", <<>>, <<>>)}
    \cup {Config(FALSE, "list", ItemsOf(n), <<PartNoHash>>) : n \in 0..MaxAccounts}
    \cup {Config(FALSE, "list", <<ItemNoSession>> \o ItemsOf(n), PartsOf(1))
            : n \in 0..(MaxAccounts - 1)}
    \cup {Config(FALSE, "list", <<List>>, PartsOf(1))}
    \cup {Config(FALSE, "invalid", <<>>, PartsOf(n)) : n \in 1..MaxAccounts}
    \cup {Config(FALSE, "invalid", <<>>, <<PartNoHash>> \o PartsOf(n))
            : n \in 0..(MaxAccounts - 1)}
    \cup {Config(FALSE, "other", <<>>, <<PartNoHash>>)}
    \cup {Config(FALSE, "other", <<>>, <<PartNoHash>> \o PartsOf(1))}

RECURSIVE JsonAccounts(_)
\* the loop over the elements of the JSON list
JsonAccounts(items) ==
    IF items = <<>> THEN <<>>
    ELSE LET item == Head(items)
             rest == JsonAccounts(Tail(items))
         IN IF IsDict(item) /\ "url" \in DOMAIN item.d /\ "session" \in DOMAIN item.d
            THEN <<[url |-> item.d.url,
                    session |-> item.d.session,
                    name |-> Get(item.d, "name", ""),
                    user_id |-> Get(item.d, "user_id", None),
                    cf_clearance |-> Get(item.d, "cf_clearance", "")]>> \o rest
            ELSE rest

RECURSIVE DelimitedAccounts(_)
\* the loop over accounts_str.split(',')
DelimitedAccounts(parts) ==
    IF parts = <<>> THEN <<>>
    ELSE LET part == Head(parts)
             rest == DelimitedAccounts(Tail(parts))
         IN IF part.hash
            THEN <<[url |-> part.url, session |-> part.session, name |-> "",
                    user_id |-> None, cf_clearance |-> ""]>> \o rest
            ELSE rest

\* (a parser that also falls back when the JSON list gives no account)
ParseForm_fallback_on_no_account(c) ==
    IF c.empty THEN "empty"
    ELSE IF c.json = "list" /\ JsonAccounts(c.items) # <<>> THEN "json"
    ELSE "delimited"

\* Which form parse_accounts ends up applying to the string.
ParseForm(c) ==
    IF c.empty THEN "empty"
    ELSE IF c.json = "list" THEN "json"
    ELSE "delimited"

parse_accounts(c) ==
    CASE ParseForm(c) = "empty" -> <<>>
      [] ParseForm(c) = "json" -> JsonAccounts(c.items)
      [] ParseForm(c) = "delimited" -> DelimitedAccounts(c.parts)

\* ------------------------------------------------------------------------
\* Session client
\* ------------------------------------------------------------------------

NoHeader == "<unset>"

\* The first of the four patterns that matches decides.
extract_user_id_from_session(session_cookie) ==
    IF ~session_cookie.decodes THEN None
    ELSE LET hits == {k \in 1..Len(session_cookie.m) : session_cookie.m[k] # ""}
         IN IF hits = {} THEN None
            ELSE IdStr(session_cookie.m[CHOOSE k \in hits : \A j \in hits : k <= j])

\* NewAPICheckin.__init__
NewClient(base_url, session_cookie, user_id, cf_clearance) ==
    LET derived == extract_user_id_from_session(session_cookie)
        uid == IF Truthy(user_id) THEN user_id ELSE derived
    IN [base_url |-> [base_url EXCEPT !.trail = 0],
        session |-> session_cookie,
        cf_clearance |-> cf_clearance,
        user_id |-> uid,
        header |-> IF Truthy(uid) THEN Str(uid) ELSE NoHeader]

NoClient == [base_url |-> Url("", 0), session |-> CookiePlain, cf_clearance |-> "",
             user_id |-> None, header |-> NoHeader]

\* Responses of the remote API
Timeout == [kind |-> "timeout"]
Transport == [kind |-> "transport"]
Http(status, body) == [kind |-> "http", status |-> status, body |-> body]
NonJson(text) == [t |-> "nonjson", text |-> text]
NoResp == [kind |-> "none"]

\* the exception messages, '未知错误: {e}' and '网络请求失败: {e}'
UnknownError == Text("unknown", 0, "exception", 46)
TransportError == Text("transport", 0, "exception", 48)

\* lines 281-284: the profile's identifier becomes the session's user id
\* and its new-api-user header
Adopt_header_forgotten(self, user_data) == [self EXCEPT !.user_id = user_data.d.id]

Adopt(self, user_data) ==
    [self EXCEPT !.user_id = user_data.d.id, !.header = Str(user_data.d.id)]

\* get_user_info: the client afterwards and the value returned
get_user_info(self, r) ==
    LET fail == [client |-> self, ret |-> None]
    IN IF r.kind # "http" THEN fail
       ELSE IF r.status = 401 THEN fail
       ELSE IF r.body.t = "nonjson" THEN fail
       ELSE IF ~IsDict(r.body) THEN fail          \* data.get raises, caught
       ELSE IF r.status # 200 THEN fail
       ELSE IF ~Truthy(Get(r.body.d, "success", None)) THEN fail
       ELSE LET user_data == Get(r.body.d, "data", None)
            IN IF ~Truthy(user_data) THEN [client |-> self, ret |-> user_data]
               ELSE IF user_data.t \in {"num", "bool"} THEN fail  \* "in" raises, caught
               ELSE IF IsDict(user_data) /\ "id" \in DOMAIN user_data.d
                    THEN [client |-> Adopt(self, user_data), ret |-> user_data]
                    ELSE [client |-> self, ret |-> user_data]

\* len(str(v)) and the name of the text of str(v), for a value put in an f-string
StrLen(v) ==
    CASE v.t = "str" -> v.len
      [] v.t = "none" -> 4
      [] v.t = "num" -> Len(ToString(v.v))
      [] OTHER -> 2
StrName(v) == IF v.t = "str" THEN v.inner ELSE Str(v)

MsgAuth == Lit("auth-expired", 25)
MsgEmptyBody == Lit("empty-body", 5)
MsgSuccess == Lit("checkin-ok", 4)
MsgFailed == Lit("checkin-failed", 4)
MsgUnknown == Lit("unknown-error", 4)
MsgTimeout == Lit("timeout", 4)

\* checkin: the four-field result
checkin(self, r) ==
    LET result0 == [success |-> FALSE, message |-> Lit("", 0),
                    checkin_date |-> None, quota_awarded |-> None]
    IN IF r.kind = "timeout" THEN [result0 EXCEPT !.message = MsgTimeout]
       ELSE IF r.kind = "transport" THEN [result0 EXCEPT !.message = TransportError]
       ELSE IF r.status = 401 THEN [result0 EXCEPT !.message = MsgAuth]
       ELSE IF r.body.t = "nonjson"
            THEN LET content_preview ==
                         IF r.body.text.len > 0 THEN Slice(r.body.text, BodyPreview)
                         ELSE MsgEmptyBody
                 IN [result0 EXCEPT !.message =
                        Text("format", r.status, content_preview.inner,
                             16 + Len(ToString(r.status)) + content_preview.len)]
       ELSE IF ~IsDict(r.body)                      \* data.get raises
            THEN [result0 EXCEPT !.message = UnknownError]
       ELSE IF r.status = 200
            THEN IF Truthy(Get(r.body.d, "success", None))
                 THEN LET result1 == [result0 EXCEPT
                                        !.success = TRUE,
                                        !.message = Get(r.body.d, "message", MsgSuccess)]
                          checkin_data == Get(r.body.d, "data", Dict(NoKeys))
                      IN IF ~IsDict(checkin_data)   \* checkin_data.get raises
                         THEN [result1 EXCEPT !.message = UnknownError]
                         ELSE [result1 EXCEPT
                                 !.checkin_date = Get(checkin_data.d, "checkin_date", None),
                                 !.quota_awarded = Get(checkin_data.d, "quota_awarded", None)]
                 ELSE [result0 EXCEPT !.message = Get(r.body.d, "message", MsgFailed)]
       ELSE LET m == Get(r.body.d, "message", MsgUnknown)
            IN [result0 EXCEPT !.message =
                   Text("http", r.status, StrName(m),
                        7 + Len(ToString(r.status)) + StrLen(m))]

\* get_checkin_history: the inner data object, or None
get_checkin_history(self, r) ==
    IF r.kind # "http" THEN None
    ELSE IF r.status # 200 THEN None
    ELSE IF r.body.t = "nonjson" THEN None        \* resp.json() raises, caught
    ELSE IF ~IsDict(r.body) THEN None             \* data.get raises, caught
    ELSE IF Truthy(Get(r.body.d, "success", None)) THEN Get(r.body.d, "data", None)
    ELSE None

\* ------------------------------------------------------------------------
\* Notification formatter and sender
\* ------------------------------------------------------------------------

TwoDigits(n) == IF n < 10 THEN "0" \o ToString(n) ELSE ToString(n)

\* f"{quota / unit:.2f}", to the nearest hundredth
Fixed2(quota, unit) ==
    LET h == (quota * 100 + unit \div 2) \div unit
    IN ToString(h \div 100) \o "." \o TwoDigits(h % 100)

\* the human-scaled quota amount
QuotaStr(quota) ==
    IF quota >= Million THEN Fixed2(quota, Million) \o "M"
    ELSE IF quota >= Thousand THEN Fixed2(quota, Thousand) \o "K"
    ELSE ToString(quota)

\* One line of the report, or the exception that building it raises.
FormatLine(r) ==
    IF r.success
    THEN IF Truthy(r.quota_awarded) /\ ~IsNum(r.quota_awarded)
         THEN [crash |-> TRUE]
         ELSE [crash |-> FALSE, emoji |-> "ok", name |-> r.name, msg |-> r.message,
               code |-> FALSE,
               quota_str |-> IF Truthy(r.quota_awarded)
                             THEN QuotaStr(r.quota_awarded.v) ELSE "",
               count |-> r.checkin_count]
    ELSE IF ~IsStr(r.message)                      \* len(msg) raises
         THEN [crash |-> TRUE]
         ELSE [crash |-> FALSE, emoji |-> "fail", name |-> r.name,
               msg |-> IF r.message.len > MsgLimit
                       THEN [Slice(r.message, MsgKeep) EXCEPT !.ell = TRUE]
                       ELSE r.message,
               code |-> TRUE, quota_str |-> "", count |-> None]

format_telegram_message(results, total_accounts) ==
    LET succ == Cardinality({k \in 1..Len(results) : results[k].success})
        fail == Len(results) - succ
        status_text == IF fail = 0 THEN "all-succeeded"
                       ELSE IF succ = 0 THEN "all-failed"
                       ELSE "partial"
        lines == [k \in 1..Len(results) |-> FormatLine(results[k])]
    IN IF \E k \in 1..Len(results) : lines[k].crash
       THEN [crash |-> TRUE]
       ELSE [crash |-> FALSE, status_text |-> status_text, total |-> total_accounts,
             success_count |-> succ, fail_count |-> fail, lines |-> lines,
             tag |-> status_text]

\* send_telegram_notification: whether a request is posted, and the value
\* returned; api is what the Bot API does with the request.
send_telegram_notification(bot_token, chat_id, message, api) ==
    IF ~Truthy(bot_token) \/ ~Truthy(chat_id)
    THEN [posted |-> FALSE, ret |-> FALSE]
    ELSE [posted |-> TRUE, ret |-> (api = "ok")]

TelegramApi == {"ok", "rejected", "exception"}

\* (a driver that takes either value for a complete configuration)
TelegramConfigured_either(bot_token, chat_id) == Truthy(bot_token) \/ Truthy(chat_id)

\* line 570: "tg_bot_token and tg_chat_id"
TelegramConfigured(bot_token, chat_id) == Truthy(bot_token) /\ Truthy(chat_id)

\* line 574: either variable is set
TelegramPartial(bot_token, chat_id) == Truthy(bot_token) \/ Truthy(chat_id)

\* an environment variable: unset, set to the empty string, or set
EnvValues == <<None, Lit("", 0), Lit("configured", 10)>>

\* ------------------------------------------------------------------------
\* What the remote API may answer
\* ------------------------------------------------------------------------

ProfileResponses ==
    <<Http(401, NonJson(Api("unauthorized", 12))),
      Http(502, NonJson(Api("bad-gateway", 11))),
      Http(200, Dict([success |-> Bool(TRUE),
                      data |-> Dict([id |-> Num(42), username |-> Api("alice", 5)])])),
      Http(200, Dict([success |-> Bool(TRUE),
                      data |-> Dict([username |-> Api("bob", 3)])])),
      Http(200, Dict([success |-> Bool(TRUE),
                      data |-> Dict([id |-> Num(42), username |-> None])])),
      Http(200, Dict([success |-> Bool(TRUE)])),
      Http(200, Dict([success |-> Bool(TRUE), data |-> List])),
      Http(200, Dict([success |-> Bool(TRUE), data |-> Num(5)])),
      Http(200, Dict([success |-> Bool(FALSE), message |-> Api("not-logged-in", 13)])),
      Http(200, Dict([success |-> Bool(FALSE),
                      data |-> Dict([id |-> Num(42), username |-> Api("alice", 5)])])),
      Http(500, Dict([success |-> Bool(TRUE),
                      data |-> Dict([id |-> Num(42), username |-> Api("alice", 5)])])),
      Http(200, List),
      Timeout,
      Transport>>

CheckinResponses ==
    <<Http(401, NonJson(Api("unauthorized", 12))),
      Http(503, NonJson(Api("Service Unavailable", 19))),
      Http(502, NonJson(Api("html-error-page", 300))),
      Http(200, NonJson(Api("", 0))),
      Http(200, Dict([success |-> Bool(TRUE), message |-> Api("ok", 2),
                      data |-> Dict([checkin_date |-> Api("2024-01-01", 10),
                                     quota_awarded |-> Num(150000)])])),
      Http(200, Dict([success |-> Bool(TRUE)])),
      Http(200, Dict([success |-> Bool(TRUE), message |-> Api("ok", 2),
                      data |-> None])),
      Http(200, Dict([success |-> Bool(TRUE), message |-> Api("ok", 2),
                      data |-> Dict([quota_awarded |-> Api("150000", 6)])])),
      Http(200, Dict([success |-> Bool(FALSE),
                      message |-> Api("already-checked-in", 18)])),
      Http(200, Dict([success |-> Bool(FALSE)])),
      Http(200, Dict([success |-> Bool(FALSE),
                      message |-> Api("long-rejection", 80)])),
      Http(200, Dict([success |-> Bool(FALSE), message |-> None])),
      Http(500, Dict([message |-> Api("internal", 8)])),
      Http(500, List),
      Http(200, List),
      Timeout,
      Transport>>

HistoryResponses ==
    <<Http(200, Dict([success |-> Bool(TRUE),
                      data |-> Dict([stats |-> Dict([checkin_count |-> Num(5),
                                                     total_quota |-> Num(750000)])])])),
      Http(200, Dict([success |-> Bool(TRUE),
                      data |-> Dict([records |-> List])])),
      Http(200, Dict([success |-> Bool(TRUE)])),
      Http(200, Dict([success |-> Bool(TRUE),
                      data |-> Dict([stats |-> Dict([checkin_count |-> Num(3),
                                                     total_quota |-> None])])])),
      Http(200, Dict([success |-> Bool(TRUE), data |-> List])),
      Http(200, Dict([success |-> Bool(FALSE)])),
      Http(200, NonJson(Api("html-error-page", 300))),
      Http(500, Dict([message |-> Api("internal", 8)])),
      Timeout>>

\* ------------------------------------------------------------------------
\* The run driver: main
\* ------------------------------------------------------------------------

NoResult == [success |-> FALSE, message |-> Lit("", 0), checkin_date |-> None,
             quota_awarded |-> None]
NoAccountResult == [name |-> "", success |-> FALSE, message |-> Lit("", 0),
                    quota_awarded |-> None, checkin_count |-> None]
TgUnread == [read |-> FALSE, token |-> FALSE, chat |-> FALSE, formatted |-> FALSE,
             posted |-> FALSE, warned |-> FALSE, message |-> [crash |-> FALSE],
             api |-> "none"]
DingUnread == [read |-> FALSE, available |-> FALSE, webhook |-> FALSE,
               called |-> FALSE, warned |-> FALSE]

Init ==
    /\ pc = "start"
    /\ cfg \in Configs
    /\ parse_form = "none"
    /\ accounts = <<>>
    /\ i = 0
    /\ client = NoClient
    /\ prev_client = NoClient
    /\ prof_resp = NoResp
    /\ user_info = None
    /\ resp = NoResp
    /\ result = NoResult
    /\ account_result = NoAccountResult
    /\ history = None
    /\ success_count = 0
    /\ fail_count = 0
    /\ checkin_results = <<>>
    /\ hist_known = <<>>
    /\ calls = <<>>
    /\ tg = TgUnread
    /\ ding = DingUnread
    /\ exit_code = 0
    /\ crashed = ""

\* sys.exit(code), or an uncaught exception (where names the statement)
Terminate(code, where) ==
    /\ pc' = "done"
    /\ exit_code' = code
    /\ crashed' = where

Running(next) ==
    /\ pc' = next
    /\ UNCHANGED <<exit_code, crashed>>

\* lines 454-460: the configuration string is read and must not be empty
ReadConfig ==
    /\ pc = "start"
    /\ IF cfg.empty THEN Terminate(1, "") ELSE Running("parse")
    /\ UNCHANGED <<cfg, parse_form, accounts, i, client, prev_client, prof_resp,
                   user_info, resp, result, account_result, history,
                   success_count, fail_count, checkin_results, hist_known, calls,
                   tg, ding>>

\* (a driver that does not stop on an empty account list)
NoAccounts_unchecked(accts) == FALSE

\* line 464: "not accounts"
NoAccounts(accts) == Len(accts) = 0

\* the head of the loop of line 474, about to take the k-th account
LoopHead(k, accts) == IF k > Len(accts) THEN "telegram" ELSE "account"

\* lines 462-472: the string is parsed and must give at least one account
ParseConfig ==
    /\ pc = "parse"
    /\ accounts' = parse_accounts(cfg)
    /\ parse_form' = ParseForm(cfg)
    /\ IF NoAccounts(parse_accounts(cfg)) THEN Terminate(1, "") /\ i' = i
       ELSE Running(LoopHead(1, parse_accounts(cfg))) /\ i' = 1
    /\ success_count' = 0
    /\ fail_count' = 0
    /\ checkin_results' = <<>>
    /\ UNCHANGED <<cfg, client, prev_client, prof_resp, user_info, resp, result,
                   account_result, history, hist_known, calls, tg, ding>>

\* name = account.get('name') or f'账号{i}'
AccountName(k) ==
    IF accounts[k].name # "" THEN accounts[k].name ELSE "account-" \o ToString(k)

\* lines 474-486: the next account's client is built
BeginAccount ==
    /\ pc = "account"
    /\ client' = NewClient(accounts[i].url, accounts[i].session, accounts[i].user_id,
                           accounts[i].cf_clearance)
    /\ Running("profile")
    /\ UNCHANGED <<cfg, parse_form, accounts, i, prev_client, prof_resp, user_info,
                   resp, result, account_result, history, success_count, fail_count,
                   checkin_results, hist_known, calls, tg, ding>>

\* lines 490-494 raise when the profile is no object or its username no string
ProfileRaises(info) ==
    /\ Truthy(info)
    /\ \/ ~IsDict(info)
       \/ ~IsStr(Get(info.d, "username", Lit("unknown", 2)))

\* lines 489-496: the profile is fetched and the user name printed
FetchProfile ==
    /\ pc = "profile"
    /\ \E k \in 1..Len(ProfileResponses) :
         LET r == ProfileResponses[k]
             got == get_user_info(client, r)
         IN /\ prof_resp' = r
            /\ prev_client' = client
            /\ client' = got.client
            /\ user_info' = got.ret
            /\ calls' = Append(calls, <<i, "profile">>)
            /\ IF ProfileRaises(got.ret) THEN Terminate(1, "profile")
               ELSE Running("checkin")
    /\ UNCHANGED <<cfg, parse_form, accounts, i, resp, result, account_result,
                   history, success_count, fail_count, checkin_results, hist_known,
                   tg, ding>>

\* lines 499-508: the check-in is posted and the account's outcome prepared
DoCheckin ==
    /\ pc = "checkin"
    /\ \E k \in 1..Len(CheckinResponses) :
         LET r == CheckinResponses[k]
             res == checkin(client, r)
         IN /\ resp' = r
            /\ result' = res
            /\ account_result' = [name |-> AccountName(i), success |-> FALSE,
                                  message |-> res.message, quota_awarded |-> None,
                                  checkin_count |-> None]
            /\ calls' = Append(calls, <<i, "checkin">>)
    /\ prof_resp' = NoResp
    /\ prev_client' = NoClient
    /\ user_info' = None
    /\ Running("result")
    /\ UNCHANGED <<cfg, parse_form, accounts, i, client, history, success_count,
                   fail_count, checkin_results, hist_known, tg, ding>>

\* lines 519-528 raise when the awarded quota is truthy and no number
QuotaRaises(res) == Truthy(res.quota_awarded) /\ ~IsNum(res.quota_awarded)

\* (counters that miss a failed account)
Counters_failure_uncounted(res, s, f) ==
    IF res.success THEN <<s + 1, f>> ELSE <<s, f>>

\* lines 511 and 552: success_count and fail_count after one result
Counters(res, s, f) ==
    IF res.success THEN <<s + 1, f>> ELSE <<s, f + 1>>

\* (a driver that asks for the history whatever the check-in gave)
AfterResult_history_always(res) == "history"

\* lines 510 and 551: the history is fetched in the success branch only
AfterResult(res) == IF res.success THEN "history" ELSE "append"

\* lines 510-529 and 551-554: the counters, and the printed reward
HandleResult ==
    /\ pc = "result"
    /\ success_count' = Counters(result, success_count, fail_count)[1]
    /\ fail_count' = Counters(result, success_count, fail_count)[2]
    /\ IF result.success
       THEN /\ account_result' = account_result
            /\ hist_known' = hist_known
            /\ IF QuotaRaises(result) THEN Terminate(1, "quota")
               ELSE Running(AfterResult(result))
       ELSE /\ account_result' = [account_result EXCEPT !.message = result.message]
            /\ hist_known' = Append(hist_known, "none")
            /\ Running(AfterResult(result))
    /\ resp' = NoResp
    /\ UNCHANGED <<cfg, parse_form, accounts, i, client, prev_client, prof_resp,
                   user_info, result, history, checkin_results, calls, tg, ding>>

\* "history and history.get('stats')"
HasStats(h) == Truthy(h) /\ Truthy(Get(h.d, "stats", None))

\* lines 533-537 raise when the history or its stats is no object, or the
\* total quota no number
HistoryRaises(h) ==
    /\ Truthy(h)
    /\ \/ ~IsDict(h)
       \/ /\ HasStats(h)
          /\ \/ ~IsDict(h.d.stats)
             \/ ~IsNum(Get(h.d.stats.d, "total_quota", Num(0)))

\* lines 531-549: the month's history is fetched and the outcome completed
FetchHistory ==
    /\ pc = "history"
    /\ \E k \in 1..Len(HistoryResponses) :
         LET h == get_checkin_history(client, HistoryResponses[k])
             checkin_count == IF ~HistoryRaises(h) /\ HasStats(h)
                              THEN Get(h.d.stats.d, "checkin_count", Num(0))
                              ELSE Num(0)
         IN /\ history' = h
            /\ calls' = Append(calls, <<i, "history">>)
            /\ IF HistoryRaises(h)
               THEN /\ Terminate(1, "history")
                    /\ UNCHANGED <<account_result, hist_known>>
               ELSE /\ Running("append")
                    /\ account_result' = [account_result EXCEPT
                                            !.success = TRUE,
                                            !.message = result.message,
                                            !.quota_awarded = result.quota_awarded,
                                            !.checkin_count = checkin_count]
                    /\ hist_known' = Append(hist_known,
                                            IF HasStats(h) THEN "stats" ELSE "nostats")
    /\ UNCHANGED <<cfg, parse_form, accounts, i, client, prev_client, prof_resp,
                   user_info, resp, result, success_count, fail_count,
                   checkin_results, tg, ding>>

\* line 556 and the loop's step
AppendResult ==
    /\ pc = "append"
    /\ checkin_results' = Append(checkin_results, account_result)
    /\ i' = i + 1
    /\ Running(LoopHead(i + 1, accounts))
    /\ client' = NoClient
    /\ result' = NoResult
    /\ account_result' = NoAccountResult
    /\ history' = None
    /\ UNCHANGED <<cfg, parse_form, accounts, prev_client, prof_resp, user_info,
                   resp, success_count, fail_count, hist_known, calls, tg, ding>>

\* lines 566-575: the Telegram sender
NotifyTelegram ==
    /\ pc = "telegram"
    /\ \E a \in 1..Len(EnvValues), b \in 1..Len(EnvValues), api \in TelegramApi :
         LET tg_bot_token == EnvValues[a]
             tg_chat_id == EnvValues[b]
             \* what is kept of the two values: whether each is non-empty
             read == [TgUnread EXCEPT !.read = TRUE, !.token = Truthy(tg_bot_token),
                                      !.chat = Truthy(tg_chat_id)]
         IN IF TelegramConfigured(tg_bot_token, tg_chat_id)
            THEN LET tg_message == format_telegram_message(checkin_results, Len(accounts))
                 IN IF tg_message.crash
                    THEN /\ tg' = read
                         /\ Terminate(1, "format")
                    ELSE /\ tg' = [read EXCEPT
                                     !.formatted = TRUE,
                                     !.message = tg_message,
                                     !.posted = send_telegram_notification(
                                                  tg_bot_token, tg_chat_id,
                                                  tg_message, api).posted,
                                     !.api = api]
                         /\ Running("dingtalk")
            ELSE /\ api = "ok"
                 /\ tg' = [read EXCEPT !.warned = TelegramPartial(tg_bot_token, tg_chat_id)]
                 /\ Running("dingtalk")
    /\ UNCHANGED <<cfg, parse_form, accounts, i, client, prev_client, prof_resp,
                   user_info, resp, result, account_result, history, success_count,
                   fail_count, checkin_results, hist_known, calls, ding>>

\* the optional notifier module: it returns, whatever the delivery did
send_dingtalk_notification(results) == [called |-> TRUE]

\* lines 577-582: the DingTalk sender, when its module was imported
NotifyDingtalk ==
    /\ pc = "dingtalk"
    /\ \E available \in BOOLEAN, webhook \in BOOLEAN :
         \* the webhook variable is read only when the module is missing
         /\ available => ~webhook
         /\ ding' = [read |-> TRUE, available |-> available, webhook |-> webhook,
                     called |-> available
                                /\ send_dingtalk_notification(checkin_results).called,
                     warned |-> ~available /\ webhook]
    /\ Running("exit")
    /\ UNCHANGED <<cfg, parse_form, accounts, i, client, prev_client, prof_resp,
                   user_info, resp, result, account_result, history, success_count,
                   fail_count, checkin_results, hist_known, calls, tg>>

\* lines 585-586: the exit code
Exit ==
    /\ pc = "exit"
    /\ Terminate(IF fail_count = Len(accounts) THEN 1 ELSE 0, "")
    /\ UNCHANGED <<cfg, parse_form, accounts, i, client, prev_client, prof_resp,
                   user_info, resp, result, account_result, history, success_count,
                   fail_count, checkin_results, hist_known, calls, tg, ding>>

Next ==
    \/ ReadConfig
    \/ ParseConfig
    \/ BeginAccount
    \/ FetchProfile
    \/ DoCheckin
    \/ HandleResult
    \/ FetchHistory
    \/ AppendResult
    \/ NotifyTelegram
    \/ NotifyDingtalk
    \/ Exit

Spec == Init /\ [][Next]_vars

\* ------------------------------------------------------------------------
\* Properties
\* ------------------------------------------------------------------------

\* the account loop ran to its end (the Telegram step is the first after it)
LoopEnded == pc \in {"telegram", "dingtalk", "exit"} \/ (pc = "done" /\ tg.read)

Succeeded(results) == {k \in 1..Len(results) : results[k].success}
Failed(results) == {k \in 1..Len(results) : ~results[k].success}

\* C1: between two accounts success_count + fail_count is the number of
\* accounts processed and the number of recorded outcomes, and once the loop
\* has ended it is the number of accounts; each counter counts the outcomes
\* of its kind.
Thm_C1 ==
    /\ pc \in {"account", "profile"} \/ LoopEnded =>
         /\ success_count + fail_count = Len(checkin_results)
         /\ success_count = Cardinality(Succeeded(checkin_results))
         /\ fail_count = Cardinality(Failed(checkin_results))
    /\ pc = "account" => Len(checkin_results) = i - 1
    /\ LoopEnded =>
         /\ success_count + fail_count = Len(accounts)
         /\ Len(checkin_results) = Len(accounts)

\* a run of two accounts, one succeeded and one failed, at the end of the loop
Witness_C1 ==
    /\ pc = "telegram"
    /\ Len(accounts) = 2
    /\ success_count = 1
    /\ fail_count = 1

\* C2: once the account loop has completed, the process ends with exit code 1
\* if every outcome has succeeded = false and with exit code 0 otherwise,
\* whatever the notification step did.
CE_C2 ==
    pc = "done" /\ tg.read =>
        exit_code = IF Succeeded(checkin_results) = {} THEN 1 ELSE 0

\* C3: a run over a non-empty account list ends with one outcome per account,
\* in input order, and with no error raised out of the account loop.
CE_C3 ==
    pc = "done" /\ Len(accounts) > 0 =>
        /\ crashed \notin {"profile", "quota", "history"}
        /\ Len(checkin_results) = Len(accounts)
        /\ \A k \in 1..Len(checkin_results) : checkin_results[k].name = AccountName(k)

\* the configuration string is empty, or parsing it gives no account
ConfigError ==
    \/ cfg.empty
    \/ cfg.json = "list" /\ Len(JsonAccounts(cfg.items)) = 0
    \/ cfg.json # "list" /\ Len(DelimitedAccounts(cfg.parts)) = 0

\* C4: on a configuration error no request is ever issued to the remote API,
\* no notification step runs, and the process ends with exit code 1.
Thm_C4 ==
    ConfigError =>
        /\ calls = <<>>
        /\ ~tg.read /\ ~tg.posted
        /\ ~ding.read /\ ~ding.called
        /\ pc \in {"start", "parse", "done"}
        /\ pc = "done" => exit_code = 1

\* a non-empty string in which no chunk holds a '#' has ended the run
Witness_C4 ==
    /\ pc = "done"
    /\ ~cfg.empty
    /\ parse_form = "delimited"
    /\ Len(accounts) = 0
    /\ exit_code = 1

\* the result the tabulation gives for a response (TRUE where it says nothing)
Tabulated(r, res) ==
    /\ r.kind = "timeout" => ~res.success /\ res.message = MsgTimeout
    /\ r.kind = "transport" => ~res.success /\ res.message.kind = "transport"
    /\ r.kind = "http" /\ r.status = 401 => ~res.success /\ res.message = MsgAuth
    /\ r.kind = "http" /\ r.status # 401 /\ r.body.t = "nonjson" =>
         /\ ~res.success
         /\ res.message.kind = "format"
         /\ res.message.status = r.status
         /\ r.body.text.len > 0 =>
              /\ res.message.inner = r.body.text.inner
              /\ res.message.len = 16 + Len(ToString(r.status))
                                   + (IF r.body.text.len > BodyPreview THEN BodyPreview
                                      ELSE r.body.text.len)
    /\ r.kind = "http" /\ r.status = 200 /\ IsDict(r.body) =>
         IF Truthy(Get(r.body.d, "success", None))
         THEN /\ res.success
              /\ res.message = Get(r.body.d, "message", MsgSuccess)
              /\ LET data == Get(r.body.d, "data", None)
                 IN IF IsDict(data)
                    THEN /\ res.checkin_date = Get(data.d, "checkin_date", None)
                         /\ res.quota_awarded = Get(data.d, "quota_awarded", None)
                    ELSE res.checkin_date = None /\ res.quota_awarded = None
         ELSE /\ ~res.success
              /\ res.message = Get(r.body.d, "message", MsgFailed)
    /\ r.kind = "http" /\ r.status \notin {200, 401} /\ r.body.t # "nonjson" =>
         /\ ~res.success
         /\ res.message.kind = "http"
         /\ res.message.status = r.status
    /\ ~res.success => res.checkin_date = None /\ res.quota_awarded = None

\* C5: the result of checkin is the one tabulated for the class of its
\* response.
CE_C5 == pc = "result" => Tabulated(resp, result)

\* the remote operations issued for the a-th account, in the order issued
OpsOf(a) ==
    LET mine == SelectSeq(calls, LAMBDA c : c[1] = a)
    IN [k \in 1..Len(mine) |-> mine[k][2]]

CallOrder == <<"profile", "checkin", "history">>

\* C6: the calls go account by account; for each account they are the
\* profile fetch, then one check-in, then at most one history fetch, none
\* twice; the history is fetched only after a check-in that succeeded; and
\* every account with a recorded outcome had its one profile fetch and its
\* one check-in.
Thm_C6 ==
    /\ \A k \in 1..(Len(calls) - 1) : calls[k][1] <= calls[k + 1][1]
    /\ \A a \in 1..Len(accounts) :
         /\ Len(OpsOf(a)) <= Len(CallOrder)
         /\ OpsOf(a) = SubSeq(CallOrder, 1, Len(OpsOf(a)))
         /\ Len(OpsOf(a)) = 3 =>
              \/ a <= Len(checkin_results) /\ checkin_results[a].success
              \/ a = i /\ a > Len(checkin_results) /\ result.success
         /\ a <= Len(checkin_results) => Len(OpsOf(a)) >= 2

\* a finished run in which one account had all three calls and a failed one
\* had two
Witness_C6 ==
    /\ pc = "exit"
    /\ \E a, b \in 1..Len(accounts) :
         /\ OpsOf(a) = CallOrder
         /\ OpsOf(b) = <<"profile", "checkin">>
         /\ ~checkin_results[b].success

\* C7: the Telegram sender posts only when both values are present; with
\* exactly one present it posts nothing and warns that the configuration is
\* incomplete; with none present it is skipped without a warning.
Thm_C7 ==
    /\ tg.posted => tg.read /\ tg.token /\ tg.chat
    /\ tg.read /\ tg.token # tg.chat => ~tg.posted /\ ~tg.formatted /\ tg.warned
    /\ tg.read /\ ~tg.token /\ ~tg.chat => ~tg.posted /\ ~tg.formatted /\ ~tg.warned
    /\ tg.read /\ tg.token /\ tg.chat => ~tg.warned /\ (tg.posted \/ crashed = "format")
    /\ ~tg.read => ~tg.warned

\* only the bot token is present, and the warning was given
Witness_C7 == tg.read /\ tg.token /\ ~tg.chat /\ tg.warned /\ ~tg.posted

\* C8 as stated: the delimited form is applied only to a string that fails
\* to parse as JSON.
CE_C8 == parse_form = "delimited" => cfg.json = "invalid"

\* C8 amended: the delimited form is applied exactly to the non-empty strings
\* that are not a JSON list (no JSON at all, or JSON of another type); a JSON
\* list gives its valid elements in order and is never read as delimited; the
\* empty string gives the empty list.
Thm_C8 ==
    /\ cfg.empty => parse_accounts(cfg) = <<>>
    /\ parse_form # "none" =>
         /\ parse_form = "delimited" <=> cfg.json # "list"
         /\ cfg.json = "list" => accounts = JsonAccounts(cfg.items)
         /\ cfg.json # "list" => accounts = DelimitedAccounts(cfg.parts)

\* a string that is JSON, but no list, was read as delimited and gave an account
Witness_C8 == parse_form = "delimited" /\ cfg.json = "other" /\ Len(accounts) > 0

\* the profile response is a 200 with success = true whose profile object
\* carries an identifier
Adopts(r) ==
    /\ r.kind = "http"
    /\ r.status = 200
    /\ IsDict(r.body)
    /\ Truthy(Get(r.body.d, "success", None))
    /\ IsDict(Get(r.body.d, "data", None))
    /\ "id" \in DOMAIN r.body.d.data.d

\* the profile response is a 200 with success = true and some value as data
\* that carries no identifier
ProfileWithoutId(r) ==
    /\ r.kind = "http"
    /\ r.status = 200
    /\ IsDict(r.body)
    /\ Truthy(Get(r.body.d, "success", None))
    /\ "data" \in DOMAIN r.body.d
    /\ ~Adopts(r)

\* C9: after the profile fetch the session's user id and its header are the
\* profile's identifier when the response is a 200 with success = true and
\* an identifier; otherwise both are as before, and the operation returned
\* null unless the response was a successful profile without identifier.
\* The calls that follow in the session carry the header of the resolved id.
Thm_C9 ==
    /\ prof_resp.kind # "none" =>
          IF Adopts(prof_resp)
          THEN /\ client.user_id = prof_resp.body.d.data.d.id
               /\ client.header = Str(prof_resp.body.d.data.d.id)
               /\ user_info = prof_resp.body.d.data
               /\ client.base_url = prev_client.base_url
               /\ client.session = prev_client.session
          ELSE /\ client = prev_client
               /\ ~ProfileWithoutId(prof_resp) => user_info = None
    /\ pc \in {"checkin", "result", "history", "append"} /\ Truthy(client.user_id) =>
          client.header = Str(client.user_id)

\* a supplied user id was overwritten by the profile's
Witness_C9 ==
    /\ prof_resp.kind # "none"
    /\ Adopts(prof_resp)
    /\ prev_client.user_id = Num(7)
    /\ client.user_id = Num(42)
    /\ client.header = "42"

\* C10: an outcome whose history fetch gave no stats, or whose check-in
\* failed, has a null monthly count, and its line in the report carries none.
CE_C10 ==
    \A k \in 1..Len(checkin_results) :
        hist_known[k] # "stats" =>
            /\ checkin_results[k].checkin_count = None
            /\ tg.formatted => tg.message.lines[k].count = None

====
